---- MODULE Spec2Model ----
(***************************************************************************)
(* Model of the two utilities of the repository:                           *)
(*   pyconfig-helper/reference/settings.py  (layered configuration)        *)
(*   skill-scaffolder/scripts/generate_skill.py  (skill scaffolder)        *)
(***************************************************************************)
EXTENDS Integers, Sequences, FiniteSets, TLC

VARIABLES
    mHeap,      \* deep_merge: the Python heap, a sequence of dict objects
    mBase,      \* deep_merge: address of the dict passed as base
    mOverride,  \* deep_merge: address of the dict passed as override
    mBaseIn,    \* deep_merge: value of base before the call
    mOverrideIn,\* deep_merge: value of override before the call
    mResult,    \* deep_merge: address of the returned dict, 0 before the call
    dFile,      \* load_dotenv: the lines of the dotenv file, or NoFile
    dEnviron0,  \* load_dotenv: os.environ before the call
    dEnviron,   \* load_dotenv: os.environ
    dState,     \* load_dotenv: "start", "returned" or "raised"
    osEnviron,  \* settings: os.environ
    fsFiles,    \* settings: the YAML files that exist, by path
    yPath,      \* load_yaml_file: the file_path argument
    yRet,       \* load_yaml_file: what the call returned or raised
    sData,      \* Settings(data): the sections the caller supplies
    sRet,       \* what Settings(data) or the last get_settings() returned or raised
    sCache,     \* get_settings: the lru_cache entry
    sReads,     \* get_settings: number of constructions, each reading the sources
    gFs,        \* scaffolder: the file system
    gArgs,      \* scaffolder: the arguments of the last run of main
    gExit,      \* scaffolder: the exit code of the last run of main
    gCalls      \* scaffolder: number of runs of main

mvars == <<mHeap, mBase, mOverride, mBaseIn, mOverrideIn, mResult>>
dvars == <<dFile, dEnviron0, dEnviron, dState>>
svars == <<osEnviron, fsFiles, yPath, yRet, sData, sRet, sCache, sReads>>
gvars == <<gFs, gArgs, gExit, gCalls>>
vars == <<mvars, dvars, svars, gvars>>

-----------------------------------------------------------------------------
(* Python values.  Every value is a tagged record, so that values of       *)
(* different Python types are comparable.                                  *)

MaxInt == 1

IntV(i) == [t |-> "int", i |-> i]
StrV(s) == [t |-> "str", s |-> s]
BoolV(b) == [t |-> "bool", b |-> b]
NullV == [t |-> "null"]
ListV(l) == [t |-> "list", l |-> l]
MapV(m) == [t |-> "map", m |-> m]
Ref(a) == [t |-> "ref", a |-> a]

EmptyDict == [k \in {} |-> NullV]

IsMap(v) == v.t = "map"
IsStr(v) == v.t = "str"
IsList(v) == v.t = "list"
IsDict(hv) == hv.t = "ref"

\* bool(v) of a Python value
Truthy(v) ==
    CASE v.t = "null" -> FALSE
      [] v.t = "bool" -> v.b
      [] v.t = "int" -> v.i # 0
      [] v.t = "str" -> v.s # ""
      [] v.t = "list" -> v.l # <<>>
      [] v.t = "map" -> DOMAIN v.m # {}
      [] OTHER -> TRUE

SetItem(d, k, v) == [x \in (DOMAIN d) \cup {k} |-> IF x = k THEN v ELSE d[x]]

MapsOver(K, V) == UNION {[D -> V] : D \in SUBSET K}

MergeKeys == {"a", "b"}
NestedKeys == {"x", "y"}
MergeLeaf == {IntV(i) : i \in 1..MaxInt} \cup {NullV, ListV(<<IntV(1)>>)}
NestedMaps == {MapV(m) : m \in MapsOver(NestedKeys, MergeLeaf)}
MergeInputs == {MapV(m) : m \in MapsOver(MergeKeys, MergeLeaf \cup NestedMaps)}

ExampleBase == MapV("a" :> MapV(("x" :> IntV(1)) @@ ("y" :> IntV(2))))
ExampleOverride == MapV("a" :> MapV("y" :> IntV(3)))

-----------------------------------------------------------------------------
(* Heap representation of nested dicts: a dict object lives at an address  *)
(* of the heap and holds, per key, a leaf value or a reference.            *)

RECURSIVE Alloc(_, _), AllocItems(_, _, _, _)
Alloc(h, v) ==
    IF IsMap(v)
    THEN LET r == AllocItems(h, v.m, DOMAIN v.m, EmptyDict)
         IN  [heap |-> Append(r.heap, r.dict), val |-> Ref(Len(r.heap) + 1)]
    ELSE [heap |-> h, val |-> v]
AllocItems(h, m, ks, d) ==
    IF ks = {} THEN [heap |-> h, dict |-> d]
    ELSE LET k == CHOOSE x \in ks : TRUE
             r == Alloc(h, m[k])
         IN  AllocItems(r.heap, m, ks \ {k}, SetItem(d, k, r.val))

RECURSIVE Deref(_, _)
Deref(h, hv) ==
    IF IsDict(hv)
    THEN MapV([k \in DOMAIN h[hv.a] |-> Deref(h, h[hv.a][k])])
    ELSE hv

RECURSIVE deep_merge(_, _, _), merge_items(_, _, _, _)

\* mutant: result = base, without the copy
deep_merge_nocopy(h, base, override) ==
    [heap |-> merge_items(h, base, override, DOMAIN h[override]), val |-> base]

\* deep_merge(base, override): heap after the call and address of the result
deep_merge(h, base, override) ==
    LET result == Len(h) + 1
        h1 == Append(h, h[base])
    IN  [heap |-> merge_items(h1, result, override, DOMAIN h[override]),
         val |-> result]

\* mutant: the override value always replaces, nested dicts are not merged
merge_items_shallow(h, result, override, ks) ==
    IF ks = {} THEN h
    ELSE LET key == CHOOSE x \in ks : TRUE
         IN  merge_items([h EXCEPT ![result] = SetItem(@, key, h[override][key])],
                         result, override, ks \ {key})

\* the loop "for key, value in override.items()" over the keys ks left to visit
merge_items(h, result, override, ks) ==
    IF ks = {} THEN h
    ELSE LET key == CHOOSE x \in ks : TRUE
             value == h[override][key]
             hn == IF /\ key \in DOMAIN h[result]
                      /\ IsDict(h[result][key])
                      /\ IsDict(value)
                   THEN LET r == deep_merge(h, h[result][key].a, value.a)
                        IN  [r.heap EXCEPT ![result] = SetItem(@, key, Ref(r.val))]
                   ELSE [h EXCEPT ![result] = SetItem(@, key, value)]
         IN  merge_items(hn, result, override, ks \ {key})

-----------------------------------------------------------------------------
(* load_dotenv.  A line is a sequence of characters; os.environ maps       *)
(* names to values, both character sequences.                              *)

MaxLineLen == 3
MaxLines == 2

Chars == {" ", "#", "=", "a", "b"}
NoFile == [exists |-> FALSE, lines |-> <<>>]
FileOf(lines) == [exists |-> TRUE, lines |-> lines]

SeqsUpTo(S, n) == UNION {[1..k -> S] : k \in 0..n}
DotenvLines == SeqsUpTo(Chars, MaxLineLen)
DotenvFiles == {FileOf(l) : l \in SeqsUpTo(DotenvLines, MaxLines)}

\* str.strip(): leading and trailing whitespace removed
RECURSIVE LStrip(_), RStrip(_)
LStrip(s) == IF s # <<>> /\ Head(s) = " " THEN LStrip(Tail(s)) ELSE s
RStrip(s) == IF s # <<>> /\ s[Len(s)] = " " THEN RStrip(SubSeq(s, 1, Len(s) - 1)) ELSE s
Strip(s) == RStrip(LStrip(s))

Contains(s, c) == \E i \in 1..Len(s) : s[i] = c
\* index of the first occurrence of c in s, which contains c
Find(s, c) == CHOOSE i \in 1..Len(s) : s[i] = c /\ \A j \in 1..(i - 1) : s[j] # c

\* line 42: the line, stripped, is an assignment
IsAssignment(line) ==
    LET l == Strip(line) IN l # <<>> /\ Head(l) # "#" /\ Contains(l, "=")
\* line 43: key, value = line.split("=", 1), both stripped on line 44
KeyOf(line) == LET l == Strip(line) IN Strip(SubSeq(l, 1, Find(l, "=") - 1))
ValueOf(line) == LET l == Strip(line) IN Strip(SubSeq(l, Find(l, "=") + 1, Len(l)))

\* mutant: os.environ[key] = value, also when the variable is already set
setdefault_overwrite(env, key, value) == SetItem(env, key, value)

\* os.environ.setdefault(key, value)
setdefault(env, key, value) ==
    IF key \in DOMAIN env THEN env ELSE SetItem(env, key, value)

\* the loop "for line in f" over the lines left to read; an empty name is
\* refused by os.environ (putenv), which ends the loop with an exception
RECURSIVE read_lines(_, _)
read_lines(env, lines) ==
    IF lines = <<>> THEN [environ |-> env, state |-> "returned"]
    ELSE LET line == Head(lines) IN
         IF IsAssignment(line)
         THEN IF KeyOf(line) = <<>> /\ <<>> \notin DOMAIN env
              THEN [environ |-> env, state |-> "raised"]
              ELSE read_lines(setdefault(env, KeyOf(line), ValueOf(line)), Tail(lines))
         ELSE read_lines(env, Tail(lines))

load_dotenv(env, file) ==
    IF ~file.exists THEN [environ |-> env, state |-> "returned"]
    ELSE read_lines(env, file.lines)

-----------------------------------------------------------------------------
(* load_yaml_file and load_merged_config.  The file system maps the paths  *)
(* that exist to what yaml.safe_load makes of the file: a Python value, or *)
(* InvalidYaml when the text is not YAML.  A call returns Ok(value) or     *)
(* Raised.                                                                 *)

InvalidYaml == [t |-> "invalid"]
Ok(v) == [raised |-> FALSE, val |-> v]
Raised == [raised |-> TRUE, val |-> NullV]
NotCalled == [raised |-> FALSE, val |-> [t |-> "none"]]

\* load_yaml_file(file_path), file_path a str or None
load_yaml_file(fs, file_path) ==
    IF ~Truthy(file_path) THEN Ok(MapV(EmptyDict))
    ELSE IF file_path.s \notin DOMAIN fs THEN Ok(MapV(EmptyDict))
    ELSE LET config == fs[file_path.s] IN
         IF config = InvalidYaml THEN Raised
         ELSE IF Truthy(config) THEN Ok(config) ELSE Ok(MapV(EmptyDict))

\* os.getenv(name, default)
getenv(environ, name, default) ==
    IF name \in DOMAIN environ THEN environ[name] ELSE default

\* deep_merge applied to two values load_yaml_file returned: base.copy()
\* needs a dict or a list, override.items() a dict, and an item assignment
\* on a list copy raises
deep_merge_values(base, override) ==
    IF IsMap(base) /\ IsMap(override)
    THEN LET b == Alloc(<<>>, base)
             o == Alloc(b.heap, override)
             r == deep_merge(o.heap, b.val.a, o.val.a)
         IN  Ok(Deref(r.heap, Ref(r.val)))
    ELSE IF IsList(base) /\ IsMap(override) /\ DOMAIN override.m = {}
    THEN Ok(base)
    ELSE Raised

\* load_merged_config()
load_merged_config(environ, fs) ==
    LET base_path == getenv(environ, "CONFIG_BASE_PATH", StrV(""))
        env_path == getenv(environ, "CONFIG_ENV_PATH", StrV(""))
        base_config == load_yaml_file(fs, base_path)
        env_config == load_yaml_file(fs, env_path)
    IN  IF base_config.raised \/ env_config.raised THEN Raised
        ELSE deep_merge_values(base_config.val, env_config.val)
-----------------------------------------------------------------------------
(* The typed settings: DatabaseConfig, ApiConfig, AppConfig, LoggingConfig *)
(* and Settings.  os.environ maps names to strings; JsonV(v) is the string *)
(* that is the JSON text of v.                                             *)

JsonV(v) == [t |-> "json", v |-> v]
InstV(cls, fields) == [t |-> "inst", cls |-> cls, fields |-> fields]
IsInst(v) == v.t = "inst"

Sections == {"database", "api", "app", "logging"}

\* declared type of every field of the four section models
Schema ==
    [database |-> [host |-> "str", port |-> "int", user |-> "str", password |-> "str"],
     api |-> [url |-> "str", timeout |-> "int"],
     app |-> [max_workers |-> "int", batch_size |-> "int", max_retry |-> "int",
              log_level |-> "str"],
     logging |-> [level |-> "str", show_progress |-> "bool"]]

\* Field(default=...) of every field
Defaults ==
    [database |-> [host |-> StrV("localhost"), port |-> IntV(3306),
                   user |-> StrV("root"), password |-> StrV("")],
     api |-> [url |-> StrV("http://localhost:8080/api"), timeout |-> IntV(5000)],
     app |-> [max_workers |-> IntV(20), batch_size |-> IntV(1000),
              max_retry |-> IntV(3), log_level |-> StrV("INFO")],
     logging |-> [level |-> StrV("INFO"), show_progress |-> BoolV(TRUE)]]

\* the environment variable a section field of Settings is bound to
\* (case_sensitive = False, no prefix, no nested delimiter)
EnvName == [database |-> "DATABASE", api |-> "API", app |-> "APP", logging |-> "LOGGING"]

\* the decimal strings of the model and the integers they denote
NumericStr == ("5432" :> 5432) @@ ("30" :> 30)

\* validation of one field value against its declared type
Coerce(type, v) ==
    CASE type = "int" ->
            IF v.t = "int" THEN Ok(v)
            ELSE IF v.t = "bool" THEN Ok(IntV(IF v.b THEN 1 ELSE 0))
            ELSE IF v.t = "str" /\ v.s \in DOMAIN NumericStr THEN Ok(IntV(NumericStr[v.s]))
            ELSE Raised
      [] type = "str" -> IF v.t = "str" THEN Ok(v) ELSE Raised
      [] type = "bool" ->
            IF v.t = "bool" THEN Ok(v)
            ELSE IF v.t = "int" /\ v.i \in {0, 1} THEN Ok(BoolV(v.i = 1))
            ELSE Raised

\* construction of a section model from the value supplied for it: an
\* instance of the model is kept, a dict is validated field by field with
\* the defaults for the missing keys, anything else is refused
validate_section(name, v) ==
    IF IsInst(v) THEN IF v.cls = name THEN Ok(v.fields) ELSE Raised
    ELSE IF ~IsMap(v) THEN Raised
    ELSE IF \E f \in DOMAIN Schema[name] :
                f \in DOMAIN v.m /\ Coerce(Schema[name][f], v.m[f]).raised
         THEN Raised
         ELSE Ok([f \in DOMAIN Schema[name] |->
                    IF f \in DOMAIN v.m THEN Coerce(Schema[name][f], v.m[f]).val
                    ELSE Defaults[name][f]])

\* deep_update of pydantic: updating wins, dicts on both sides are merged
RECURSIVE deep_update(_, _)
deep_update(mapping, updating) ==
    [k \in (DOMAIN mapping) \cup (DOMAIN updating) |->
        IF k \notin DOMAIN updating THEN mapping[k]
        ELSE IF k \in DOMAIN mapping /\ IsMap(mapping[k]) /\ IsMap(updating[k])
             THEN MapV(deep_update(mapping[k].m, updating[k].m))
             ELSE updating[k]]

\* the environment source of BaseSettings: a section field is read from its
\* variable as JSON; text that is not JSON is an error
EnvSourceFails(environ) ==
    \E s \in Sections : EnvName[s] \in DOMAIN environ /\ environ[EnvName[s]].t # "json"
EnvSource(environ) ==
    [s \in {x \in Sections : EnvName[x] \in DOMAIN environ} |-> environ[EnvName[s]].v]

\* super().__init__(data): the init arguments are laid over the
\* environment source, then every field is validated or defaulted
BaseSettings_init(environ, data) ==
    IF EnvSourceFails(environ) THEN Raised
    ELSE LET state == deep_update(EnvSource(environ), data)
             section(s) == IF s \in DOMAIN state THEN validate_section(s, state[s])
                           ELSE Ok(Defaults[s])
         IN  IF \E s \in Sections : section(s).raised THEN Raised
             ELSE Ok([config_base_path |-> getenv(environ, "CONFIG_BASE_PATH", StrV("")),
                      config_env_path |-> getenv(environ, "CONFIG_ENV_PATH", StrV("")),
                      database |-> section("database").val,
                      api |-> section("api").val,
                      app |-> section("app").val,
                      logging |-> section("logging").val])

\* mutant: the password is set only when YAML or the caller gave no database section
apply_env_overrides_absent_only(environ, data) ==
    IF Truthy(getenv(environ, "DATABASE_PASSWORD", NullV)) /\ "database" \notin DOMAIN data
    THEN SetItem(data, "database",
                 MapV("password" :> getenv(environ, "DATABASE_PASSWORD", NullV)))
    ELSE data

\* Settings._apply_env_overrides(data)
apply_env_overrides(environ, data) ==
    IF Truthy(getenv(environ, "DATABASE_PASSWORD", NullV))
    THEN LET d == IF "database" \notin DOMAIN data
                  THEN SetItem(data, "database", MapV(EmptyDict)) ELSE data
         IN  IF IsMap(d["database"])
             THEN SetItem(d, "database",
                          MapV(SetItem(d["database"].m, "password",
                                       getenv(environ, "DATABASE_PASSWORD", NullV))))
             ELSE d
    ELSE data

\* lines 180-188: the sections of the YAML configuration the caller did not
\* supply; indexing a list that holds a section name raises
YamlSectionsFail(yaml_config, data) ==
    /\ IsList(yaml_config) /\ Truthy(yaml_config)
    /\ \E s \in Sections :
          s \notin DOMAIN data /\ \E i \in 1..Len(yaml_config.l) : yaml_config.l[i] = StrV(s)
YamlSections(yaml_config, data) ==
    IF Truthy(yaml_config) /\ IsMap(yaml_config)
    THEN [s \in (DOMAIN data) \cup ((DOMAIN yaml_config.m) \cap Sections) |->
            IF s \in DOMAIN data THEN data[s] ELSE yaml_config.m[s]]
    ELSE data

\* Settings.__init__(data)
Settings_init(environ, fs, data) ==
    LET yaml_config == load_merged_config(environ, fs) IN
    IF yaml_config.raised THEN Raised
    ELSE IF YamlSectionsFail(yaml_config.val, data) THEN Raised
    ELSE BaseSettings_init(environ,
             apply_env_overrides(environ, YamlSections(yaml_config.val, data)))

\* Settings.db_url
db_url(settings) ==
    <<"mysql+pymysql://", settings.database["user"], ":", settings.database["password"],
      "@", settings.database["host"], ":", settings.database["port"]>>
-----------------------------------------------------------------------------
(* get_settings, decorated with lru_cache: a call that returns fills the   *)
(* cache, a call that raises leaves it as it was.                          *)

NoCache == [set |-> FALSE, val |-> NullV]
Cached(v) == [set |-> TRUE, val |-> v]

\* mutant: no lru_cache, every call constructs a Settings
get_settings_uncached(cache, environ, fs) ==
    LET r == Settings_init(environ, fs, EmptyDict)
    IN  [cache |-> IF r.raised THEN cache ELSE Cached(r.val), ret |-> r, read |-> TRUE]

\* mutant: a failed construction falls back to a Settings of defaults, which is cached
get_settings_best_effort(cache, environ, fs) ==
    IF cache.set THEN [cache |-> cache, ret |-> Ok(cache.val), read |-> FALSE]
    ELSE LET r == Settings_init(environ, fs, EmptyDict)
             d == BaseSettings_init(EmptyDict, EmptyDict)
         IN  IF r.raised THEN [cache |-> Cached(d.val), ret |-> Raised, read |-> TRUE]
             ELSE [cache |-> Cached(r.val), ret |-> r, read |-> TRUE]

\* get_settings(): the new cache, what the call returns or raises, and
\* whether the sources were read
get_settings(cache, environ, fs) ==
    IF cache.set THEN [cache |-> cache, ret |-> Ok(cache.val), read |-> FALSE]
    ELSE LET r == Settings_init(environ, fs, EmptyDict)
         IN  [cache |-> IF r.raised THEN cache ELSE Cached(r.val), ret |-> r, read |-> TRUE]
-----------------------------------------------------------------------------
(* generate_skill.py.  A name or a description is a string written as pad  *)
(* letters ("a" for a name, "x" for a description) followed by chars, so   *)
(* that strings around the length limits are at hand.  The file system     *)
(* maps the paths that exist to a directory or a file with its content.    *)

MaxNameLen == 64
MaxDescLen == 1024

Text(pad, chars) == [pad |-> pad, chars |-> chars]
TextLen(s) == s.pad + Len(s.chars)

\* the characters of the class [a-z0-9-]
NameClass == {"a", "1", "-"}
AllInClass(chars) == \A i \in 1..Len(chars) : chars[i] \in NameClass

\* re.match(r'^[a-z0-9-]+$', name): one or more characters of the class up
\* to the end of the string, or up to a newline that ends the string
NameMatches(name) ==
    \/ TextLen(name) >= 1 /\ AllInClass(name.chars)
    \/ /\ TextLen(name) >= 2
       /\ name.chars # <<>>
       /\ name.chars[Len(name.chars)] = "\n"
       /\ AllInClass(SubSeq(name.chars, 1, Len(name.chars) - 1))

\* validate_name(name) and validate_description(description): the bool of the pair returned
validate_name(name) ==
    IF TextLen(name) = 0 THEN FALSE
    ELSE IF TextLen(name) > MaxNameLen THEN FALSE
    ELSE NameMatches(name)

\* re.search(r'<[^>]+>', description)
HasTag(description) ==
    LET d == description.chars IN
    \E i \in 1..Len(d) : \E j \in (i + 2)..Len(d) :
        d[i] = "<" /\ d[j] = ">" /\ \A k \in (i + 1)..(j - 1) : d[k] # ">"

validate_description(description) ==
    IF TextLen(description) = 0 THEN FALSE
    ELSE IF TextLen(description) > MaxDescLen THEN FALSE
    ELSE ~HasTag(description)

Dir == [kind |-> "dir"]
File(content) == [kind |-> "file", content |-> content]

\* the texts the three files are written with
generate_skill_md(name, description) ==
    [template |-> "SKILL.md", name |-> name, description |-> description]
generate_readme(name, description) == [template |-> "README.md", name |-> name]
Gitkeep == [template |-> ".gitkeep"]

Mkdir(path) == [op |-> "mkdir", path |-> path, entry |-> Dir]
WriteText(path, content) == [op |-> "write", path |-> path, entry |-> File(content)]

\* the file system after the operations ops, of which the one numbered fault
\* (if any) fails with an I/O error and ends the run; n numbers the first
RECURSIVE RunOps(_, _, _, _)
RunOps(fs, ops, n, fault) ==
    IF ops = <<>> THEN [fs |-> fs, failed |-> FALSE]
    ELSE IF n = fault THEN [fs |-> fs, failed |-> TRUE]
    ELSE RunOps(SetItem(fs, Head(ops).path, Head(ops).entry), Tail(ops), n + 1, fault)

\* the operations of create_skill_scaffold once the target is known to be free
ScaffoldOps(name, description, skill_dir) ==
    <<Mkdir(skill_dir),
      Mkdir(skill_dir \o <<"scripts">>),
      Mkdir(skill_dir \o <<"examples">>),
      WriteText(skill_dir \o <<"SKILL.md">>, generate_skill_md(name, description)),
      WriteText(skill_dir \o <<"examples", "README.md">>, generate_readme(name, description)),
      WriteText(skill_dir \o <<"scripts", ".gitkeep">>, Gitkeep)>>

\* mutant: no check that the target exists
create_skill_scaffold_overwrite(fs, name, description, output_dir, n, fault) ==
    LET r == RunOps(fs, ScaffoldOps(name, description, output_dir \o <<name>>), n, fault)
    IN  [fs |-> r.fs, raised |-> r.failed]

\* create_skill_scaffold(name, description, output_dir); n numbers its first
\* file system operation
create_skill_scaffold(fs, name, description, output_dir, n, fault) ==
    LET skill_dir == output_dir \o <<name>> IN
    IF skill_dir \in DOMAIN fs THEN [fs |-> fs, raised |-> TRUE]
    ELSE LET r == RunOps(fs, ScaffoldOps(name, description, skill_dir), n, fault)
         IN  [fs |-> r.fs, raised |-> r.failed]

\* main() with the arguments --name, --description, --output: the file
\* system after the run and the exit code
main(fs, name, description, output, fault) ==
    IF ~validate_name(name) THEN [fs |-> fs, exit |-> 1]
    ELSE IF ~validate_description(description) THEN [fs |-> fs, exit |-> 1]
    ELSE LET made == IF output \in DOMAIN fs THEN <<>> ELSE <<Mkdir(output)>>
             out == RunOps(fs, made, 1, fault)
         IN  IF out.failed THEN [fs |-> fs, exit |-> 1]
             ELSE LET r == create_skill_scaffold(out.fs, name, description, output,
                                                 Len(made) + 1, fault)
                  IN  [fs |-> r.fs, exit |-> IF r.raised THEN 1 ELSE 0]
-----------------------------------------------------------------------------
(* Values of the variables of a component that a specification does not    *)
(* exercise.                                                               *)

MergeIdle ==
    /\ mHeap = <<>> /\ mBase = 0 /\ mOverride = 0
    /\ mBaseIn = NullV /\ mOverrideIn = NullV /\ mResult = 0

DotenvIdle ==
    /\ dFile = NoFile /\ dEnviron0 = <<>> /\ dEnviron = <<>> /\ dState = "start"

SettingsIdle ==
    /\ osEnviron = EmptyDict /\ fsFiles = EmptyDict
    /\ yPath = NullV /\ yRet = NotCalled
    /\ sData = EmptyDict /\ sRet = NotCalled /\ sCache = NoCache /\ sReads = 0

NoArgs == [name |-> Text(0, <<>>), description |-> Text(0, <<>>), output |-> <<>>]

ScaffoldIdle ==
    /\ gFs = EmptyDict /\ gArgs = NoArgs /\ gExit = 0 /\ gCalls = 0

-----------------------------------------------------------------------------
(* Specification of deep_merge: the two arguments are drawn from the       *)
(* bounded nested mappings (or are the documented example, or are one and  *)
(* the same object), then deep_merge is called once.                       *)

MergeInit ==
    /\ DotenvIdle /\ SettingsIdle /\ ScaffoldIdle
    /\ \E p \in (MergeInputs \X MergeInputs) \cup {<<ExampleBase, ExampleOverride>>} :
       \E alias \in BOOLEAN :
          LET b == Alloc(<<>>, p[1])
              o == Alloc(b.heap, p[2])
          IN  /\ alias => p[1] = p[2]
              /\ mBaseIn = p[1]
              /\ mOverrideIn = IF alias THEN p[1] ELSE p[2]
              /\ mBase = b.val.a
              /\ mOverride = IF alias THEN b.val.a ELSE o.val.a
              /\ mHeap = IF alias THEN b.heap ELSE o.heap
    /\ mResult = 0

DeepMergeCall ==
    /\ mResult = 0
    /\ LET r == deep_merge(mHeap, mBase, mOverride)
       IN  /\ mHeap' = r.heap
           /\ mResult' = r.val
    /\ UNCHANGED <<mBase, mOverride, mBaseIn, mOverrideIn>>
    /\ UNCHANGED <<dvars, svars, gvars>>

MergeNext == DeepMergeCall
SpecMerge == MergeInit /\ [][MergeNext]_vars

\* the reference recursive merge of two nested mappings
RECURSIVE RefMerge(_, _)
RefMerge(b, o) ==
    MapV([k \in (DOMAIN b.m) \cup (DOMAIN o.m) |->
            IF k \notin DOMAIN o.m THEN b.m[k]
            ELSE IF k \in DOMAIN b.m /\ IsMap(b.m[k]) /\ IsMap(o.m[k])
                 THEN RefMerge(b.m[k], o.m[k])
                 ELSE o.m[k]])

\* C2: the dict deep_merge returns is the reference recursive merge of its arguments
C2_MergeIsReference ==
    mResult # 0 => Deref(mHeap, Ref(mResult)) = RefMerge(mBaseIn, mOverrideIn)

C2_Witness ==
    /\ mResult # 0
    /\ mBaseIn = ExampleBase /\ mOverrideIn = ExampleOverride
    /\ Deref(mHeap, Ref(mResult)) = MapV("a" :> MapV(("x" :> IntV(1)) @@ ("y" :> IntV(3))))

\* C9: after deep_merge returns, base and override hold their values from before the call
C9_InputsNotMutated ==
    mResult # 0 => /\ Deref(mHeap, Ref(mBase)) = mBaseIn
                   /\ Deref(mHeap, Ref(mOverride)) = mOverrideIn

C9_Witness ==
    /\ mResult # 0
    /\ mResult # mBase
    /\ \E k \in DOMAIN mBaseIn.m : k \in DOMAIN mOverrideIn.m
          /\ IsMap(mBaseIn.m[k]) /\ IsMap(mOverrideIn.m[k])
          /\ Deref(mHeap, Ref(mResult)).m[k] # mBaseIn.m[k]
    /\ Deref(mHeap, Ref(mBase)) = mBaseIn
-----------------------------------------------------------------------------
(* Specification of load_dotenv: os.environ and the file are drawn, then    *)
(* load_dotenv is called once.                                             *)

DotenvEnvirons ==
    {EmptyDict, <<"a">> :> <<"b">>, <<"a">> :> <<>>}

DotenvInit ==
    /\ MergeIdle /\ SettingsIdle /\ ScaffoldIdle
    /\ dFile \in DotenvFiles \cup {NoFile}
    /\ dEnviron0 \in DotenvEnvirons
    /\ dEnviron = dEnviron0
    /\ dState = "start"

LoadDotenv ==
    /\ dState = "start"
    /\ LET r == load_dotenv(dEnviron, dFile)
       IN  /\ dEnviron' = r.environ
           /\ dState' = r.state
    /\ UNCHANGED <<dFile, dEnviron0>>
    /\ UNCHANGED <<mvars, svars, gvars>>

DotenvNext == LoadDotenv
SpecDotenv == DotenvInit /\ [][DotenvNext]_vars

\* characterisation of the lines, independent of strip and split
AllSpaces(line) == \A i \in 1..Len(line) : line[i] = " "
IsComment(line) ==
    \E i \in 1..Len(line) : line[i] = "#" /\ \A j \in 1..(i - 1) : line[j] = " "
Inert(line) == AllSpaces(line) \/ IsComment(line) \/ ~Contains(line, "=")
\* the lines of the file that name the variable k
Naming(lines, k) == {i \in 1..Len(lines) : ~Inert(lines[i]) /\ KeyOf(lines[i]) = k}
Min(S) == CHOOSE i \in S : \A j \in S : i <= j

\* C5: load_dotenv keeps every variable that was set, sets a new variable only
\* from the first line that names it, changes nothing for inert lines or a
\* missing file, and does not raise for a missing file
C5_DotenvFirstWriterWins ==
    dState # "start" =>
        /\ \A k \in DOMAIN dEnviron0 : k \in DOMAIN dEnviron /\ dEnviron[k] = dEnviron0[k]
        /\ ~dFile.exists => dEnviron = dEnviron0 /\ dState = "returned"
        /\ dFile.exists =>
              LET lines == dFile.lines IN
              /\ \A k \in (DOMAIN dEnviron) \ (DOMAIN dEnviron0) :
                    /\ Naming(lines, k) # {}
                    /\ dEnviron[k] = ValueOf(lines[Min(Naming(lines, k))])
              /\ (\A i \in 1..Len(lines) : Inert(lines[i])) => dEnviron = dEnviron0
              /\ dState = "returned" =>
                    \A i \in 1..Len(lines) :
                        ~Inert(lines[i]) => KeyOf(lines[i]) \in DOMAIN dEnviron

\* FOO=bar stays bar when the file says FOO=baz, and of two lines for a new
\* name the first one wins
C5_Witness ==
    /\ dState = "returned"
    /\ dEnviron0 = (<<"a">> :> <<"b">>)
    /\ dFile = FileOf(<< <<"a", "=", "a">>, <<"b", "=", "a">> >>)
    /\ dEnviron = (<<"a">> :> <<"b">>) @@ (<<"b">> :> <<"a">>)
-----------------------------------------------------------------------------
(* Specification of load_yaml_file: the files and the argument are drawn,  *)
(* then load_yaml_file is called once.                                     *)

Paths == {"base.yaml", "env.yaml"}

DocApp10 == MapV("app" :> MapV("max_workers" :> IntV(10)))
DocApp20 == MapV("app" :> MapV("max_workers" :> IntV(20)))
DocDbPw == MapV("database" :> MapV(("host" :> StrV("db")) @@ ("password" :> StrV("yamlpw"))))
DocDbUser == MapV("database" :> MapV("user" :> StrV("u")))
DocBadPort == MapV("database" :> MapV("port" :> StrV("abc")))
DocMixed == MapV(("database" :> MapV("port" :> StrV("5432")))
                 @@ ("app" :> MapV("batch_size" :> IntV(50)))
                 @@ ("logging" :> MapV("show_progress" :> BoolV(FALSE))))
DocDbNull == MapV("database" :> NullV)
DocList == ListV(<<StrV("database")>>)

YamlDocs ==
    {NullV, IntV(0), IntV(5), StrV(""), StrV("hello"), BoolV(FALSE), BoolV(TRUE),
     ListV(<<>>), DocList, MapV(EmptyDict), DocApp10, DocDbPw, InvalidYaml}

YamlInit ==
    /\ MergeIdle /\ DotenvIdle /\ ScaffoldIdle
    /\ osEnviron = EmptyDict
    /\ fsFiles \in MapsOver(Paths, YamlDocs)
    /\ yPath \in {NullV, StrV(""), StrV("base.yaml"), StrV("env.yaml")}
    /\ yRet = NotCalled
    /\ sData = EmptyDict /\ sRet = NotCalled /\ sCache = NoCache /\ sReads = 0

LoadYamlFile ==
    /\ yRet = NotCalled
    /\ yRet' = load_yaml_file(fsFiles, yPath)
    /\ UNCHANGED <<osEnviron, fsFiles, yPath, sData, sRet, sCache, sReads>>
    /\ UNCHANGED <<mvars, dvars, gvars>>

YamlNext == LoadYamlFile
SpecYaml == YamlInit /\ [][YamlNext]_vars

-----------------------------------------------------------------------------
(* Specification of Settings(data): os.osEnviron, the YAML files and the   *)
(* caller's sections are drawn, then Settings is constructed once.         *)

SettingsDocs ==
    {DocApp10, DocApp20, DocDbPw, DocDbUser, DocBadPort, DocDbNull, DocMixed, DocList,
     InvalidYaml}

EnvApp30 == JsonV(MapV("max_workers" :> IntV(30)))
EnvAppBatch == JsonV(MapV("batch_size" :> IntV(7)))

\* the values a variable of os.osEnviron takes in the model
EnvValues ==
    [CONFIG_BASE_PATH |-> {StrV(""), StrV("base.yaml")},
     CONFIG_ENV_PATH |-> {StrV("env.yaml")},
     DATABASE_PASSWORD |-> {StrV(""), StrV("s3cret")},
     APP |-> {EnvApp30, EnvAppBatch}]

Environs ==
    UNION {{e \in [D -> UNION {EnvValues[n] : n \in D}] : \A n \in D : e[n] \in EnvValues[n]} :
           D \in SUBSET DOMAIN EnvValues}

CallerDatabase ==
    {MapV(EmptyDict), MapV("password" :> StrV("callerpw")),
     InstV("database", [Defaults["database"] EXCEPT !["password"] = StrV("callerpw")])}
CallerApp == {MapV("max_workers" :> IntV(5))}
CallerData ==
    {d \in MapsOver({"database", "app"}, CallerDatabase \cup CallerApp) :
        /\ "database" \in DOMAIN d => d["database"] \in CallerDatabase
        /\ "app" \in DOMAIN d => d["app"] \in CallerApp}

SettingsInit ==
    /\ MergeIdle /\ DotenvIdle /\ ScaffoldIdle
    /\ osEnviron \in Environs
    /\ fsFiles \in MapsOver(Paths, SettingsDocs)
    /\ sData \in CallerData
    /\ sRet = NotCalled
    /\ yPath = NullV /\ yRet = NotCalled /\ sCache = NoCache /\ sReads = 0

Construct ==
    /\ sRet = NotCalled
    /\ sRet' = Settings_init(osEnviron, fsFiles, sData)
    /\ UNCHANGED <<osEnviron, fsFiles, yPath, yRet, sData, sCache, sReads>>
    /\ UNCHANGED <<mvars, dvars, gvars>>

SettingsNext == Construct
SpecSettings == SettingsInit /\ [][SettingsNext]_vars
-----------------------------------------------------------------------------
(* Specification of the settings facade: the process starts with an empty  *)
(* cache; environment variables and YAML files change at any time, and     *)
(* get_settings is called at any time.                                     *)

MaxReads == 3

FacadeDocs == {DocApp10, DocDbPw, DocBadPort, InvalidYaml}
FacadeEnvValues ==
    [CONFIG_BASE_PATH |-> {StrV("base.yaml")},
     CONFIG_ENV_PATH |-> {StrV("env.yaml")},
     DATABASE_PASSWORD |-> {StrV(""), StrV("s3cret")},
     APP |-> {EnvApp30}]

Init ==
    /\ MergeIdle /\ DotenvIdle /\ SettingsIdle /\ ScaffoldIdle

SetEnv ==
    /\ \E name \in DOMAIN FacadeEnvValues : \E value \in FacadeEnvValues[name] :
          osEnviron' = SetItem(osEnviron, name, value)
    /\ UNCHANGED <<fsFiles, yPath, yRet, sData, sRet, sCache, sReads>>
    /\ UNCHANGED <<mvars, dvars, gvars>>

UnsetEnv ==
    /\ \E name \in DOMAIN osEnviron :
          osEnviron' = [n \in (DOMAIN osEnviron) \ {name} |-> osEnviron[n]]
    /\ UNCHANGED <<fsFiles, yPath, yRet, sData, sRet, sCache, sReads>>
    /\ UNCHANGED <<mvars, dvars, gvars>>

WriteFile ==
    /\ \E path \in Paths : \E doc \in FacadeDocs :
          fsFiles' = SetItem(fsFiles, path, doc)
    /\ UNCHANGED <<osEnviron, yPath, yRet, sData, sRet, sCache, sReads>>
    /\ UNCHANGED <<mvars, dvars, gvars>>

RemoveFile ==
    /\ \E path \in DOMAIN fsFiles :
          fsFiles' = [p \in (DOMAIN fsFiles) \ {path} |-> fsFiles[p]]
    /\ UNCHANGED <<osEnviron, yPath, yRet, sData, sRet, sCache, sReads>>
    /\ UNCHANGED <<mvars, dvars, gvars>>

GetSettings ==
    /\ sCache.set \/ sReads < MaxReads
    /\ LET r == get_settings(sCache, osEnviron, fsFiles)
       IN  /\ sCache' = r.cache
           /\ sRet' = r.ret
           /\ sReads' = IF r.read THEN sReads + 1 ELSE sReads
    /\ UNCHANGED <<osEnviron, fsFiles, yPath, yRet, sData>>
    /\ UNCHANGED <<mvars, dvars, gvars>>

Next == SetEnv \/ UnsetEnv \/ WriteFile \/ RemoveFile \/ GetSettings
Spec == Init /\ [][Next]_vars
-----------------------------------------------------------------------------
(* Specification of the scaffolder: main is run up to MaxCalls times on a  *)
(* file system that is empty at first, with any arguments and with an I/O  *)
(* error at any file system operation or none.                             *)

MaxCalls == 2
MaxNameChars == 2
MaxDescChars == 1

NameAlphabet == {"a", "A", "_", "\n"}
DescAlphabet == {"x", "<", ">"}

\* short names, and names about as long as the limit
NameInputs ==
    {Text(0, c) : c \in SeqsUpTo(NameAlphabet, MaxNameChars)}
        \cup {Text(MaxNameLen, <<>>), Text(MaxNameLen, <<"a">>),
              Text(MaxNameLen - 1, <<"\n">>)}
\* short descriptions, the same between angle brackets, and descriptions
\* about as long as the limit
DescInputs ==
    {Text(0, c) : c \in SeqsUpTo(DescAlphabet, MaxDescChars)}
        \cup {Text(0, <<"<">> \o c \o <<">">>) : c \in SeqsUpTo(DescAlphabet, MaxDescChars)}
        \cup {Text(MaxDescLen, <<>>), Text(MaxDescLen, <<"x">>)}
Outputs == {<<"out">>}
\* 0: no I/O error; k: the k-th file system operation of the run fails
Faults == 0..(Len(ScaffoldOps(Text(0, <<>>), Text(0, <<>>), <<>>)) + 1)

ScaffoldInit ==
    /\ MergeIdle /\ DotenvIdle /\ SettingsIdle /\ ScaffoldIdle

Main ==
    /\ gCalls < MaxCalls
    /\ \E name \in NameInputs : \E description \in DescInputs :
       \E output \in Outputs : \E fault \in Faults :
          LET r == main(gFs, name, description, output, fault)
          IN  /\ gFs' = r.fs
              /\ gExit' = r.exit
              /\ gArgs' = [name |-> name, description |-> description,
                           output |-> output]
    /\ gCalls' = gCalls + 1
    /\ UNCHANGED <<mvars, dvars, svars>>

ScaffoldNext == Main
SpecScaffold == ScaffoldInit /\ [][ScaffoldNext]_vars
-----------------------------------------------------------------------------
(* Claims about load_yaml_file and the construction of Settings.           *)

YamlCalled == yRet # NotCalled
\* the argument names a file that exists
YamlFileFound == Truthy(yPath) /\ yPath.s \in DOMAIN fsFiles

\* C6: load_yaml_file returns {} for an empty or None path, a missing file and
\* content that is not a non-null mapping, returns the parsed mapping
\* otherwise, never raises for a missing file, and returns a mapping whenever
\* it returns
C6_YamlAlwaysMapping ==
    YamlCalled =>
        /\ ~YamlFileFound => yRet = Ok(MapV(EmptyDict))
        /\ (YamlFileFound /\ fsFiles[yPath.s] # InvalidYaml) =>
              yRet = IF IsMap(fsFiles[yPath.s]) THEN Ok(fsFiles[yPath.s])
                     ELSE Ok(MapV(EmptyDict))
        /\ ~yRet.raised => IsMap(yRet.val)

Constructed == sRet # NotCalled /\ ~sRet.raised

\* the YAML layer at the path the variable name holds, {} when there is none
Layer(name) ==
    IF name \in DOMAIN osEnviron /\ Truthy(osEnviron[name])
       /\ osEnviron[name].s \in DOMAIN fsFiles
    THEN fsFiles[osEnviron[name].s]
    ELSE MapV(EmptyDict)
\* the mapping v supplies the field f of the section s
Supplies(v, s, f) == IsMap(v) /\ s \in DOMAIN v.m /\ IsMap(v.m[s]) /\ f \in DOMAIN v.m[s].m
EnvLayer ==
    MapV([s \in {x \in Sections : EnvName[x] \in DOMAIN osEnviron
                                  /\ osEnviron[EnvName[x]].t = "json"} |->
            osEnviron[EnvName[s]].v])
\* the value of the highest-priority layer that supplies the field f of the
\* section s: environment variable, environment YAML, base YAML, default
ByPrecedence(s, f) ==
    IF Supplies(EnvLayer, s, f) THEN Coerce(Schema[s][f], EnvLayer.m[s].m[f]).val
    ELSE IF Supplies(Layer("CONFIG_ENV_PATH"), s, f)
    THEN Coerce(Schema[s][f], Layer("CONFIG_ENV_PATH").m[s].m[f]).val
    ELSE IF Supplies(Layer("CONFIG_BASE_PATH"), s, f)
    THEN Coerce(Schema[s][f], Layer("CONFIG_BASE_PATH").m[s].m[f]).val
    ELSE Defaults[s][f]

\* C1: constructed without caller-supplied sections, app.max_workers is the
\* value of the highest-priority layer that supplies it, in the order
\* environment variable > environment YAML > base YAML > default
C1_LayerPrecedence ==
    (Constructed /\ sData = EmptyDict) =>
        sRet.val.app["max_workers"] = ByPrecedence("app", "max_workers")

PasswordSet == "DATABASE_PASSWORD" \in DOMAIN osEnviron

-----------------------------------------------------------------------------
(* Claims about the settings facade.                                       *)

\* C4: the first get_settings call that succeeds constructs one instance and
\* caches it; from then on the cache never changes, no source is read again,
\* and every call returns the cached instance, with the same db_url
C4_Singleton ==
    [][/\ (~sCache.set /\ sCache'.set) =>
              (sReads' = sReads + 1 /\ sRet' = Ok(sCache'.val))
       /\ sCache.set =>
              /\ sCache' = sCache
              /\ sReads' = sReads
              /\ sRet' = Ok(sCache.val)
              /\ db_url(sRet'.val) = db_url(sCache.val)]_vars

\* Initialized, and the sources have since changed to ones that would give
\* another Settings or none
C4_Witness ==
    /\ sCache.set
    /\ sReads = 1
    /\ sRet = Ok(sCache.val)
    /\ Settings_init(osEnviron, fsFiles, EmptyDict) # Ok(sCache.val)
    /\ "DATABASE_PASSWORD" \in DOMAIN osEnviron
    /\ sCache.val.database["password"] # osEnviron["DATABASE_PASSWORD"]

\* C10 as stated: once a get_settings call has failed, the facade never
\* reaches Initialized
C10_NeverInitializedAfterFailure ==
    [][sRet.raised => ~sCache'.set]_vars

\* C10 amended: a get_settings call that fails propagates the error and
\* caches nothing, so the facade stays Uninitialized until a later call
\* constructs a Settings
C10_FailureNotCached ==
    sRet.raised => (~sCache.set /\ sReads > 0)

\* a call has failed on a YAML file with invalid syntax
C10_Witness ==
    /\ sRet.raised
    /\ ~sCache.set
    /\ "CONFIG_BASE_PATH" \in DOMAIN osEnviron
    /\ "base.yaml" \in DOMAIN fsFiles /\ fsFiles["base.yaml"] = InvalidYaml
    /\ sReads = 1
-----------------------------------------------------------------------------
(* Claims about the scaffolder.                                            *)

\* the string holds a character that is no lowercase letter, digit or hyphen
HasForeignChar(name) == \E i \in 1..Len(name.chars) : name.chars[i] \notin NameClass
\* the arguments the scaffolder is to refuse
Refused(name, description) ==
    \/ TextLen(name) = 0 \/ TextLen(name) > MaxNameLen \/ HasForeignChar(name)
    \/ TextLen(description) = 0 \/ TextLen(description) > MaxDescLen \/ HasTag(description)

\* C7: a run of main with a name or a description that is to be refused exits
\* with code 1 and leaves the file system exactly as it was
C7_ValidationBeforeMutation ==
    [][(gCalls' # gCalls /\ Refused(gArgs'.name, gArgs'.description)) =>
           (gExit' = 1 /\ gFs' = gFs)]_vars

SkillDir(args) == args.output \o <<args.name>>
\* the three directories and the three files of a scaffold are in place
TreeComplete(fs, args) ==
    /\ \A p \in {SkillDir(args), SkillDir(args) \o <<"scripts">>,
                 SkillDir(args) \o <<"examples">>} : p \in DOMAIN fs /\ fs[p] = Dir
    /\ \A p \in {SkillDir(args) \o <<"SKILL.md">>,
                 SkillDir(args) \o <<"examples", "README.md">>,
                 SkillDir(args) \o <<"scripts", ".gitkeep">>} :
          p \in DOMAIN fs /\ fs[p].kind = "file"

\* C8: a run that exits with 0 leaves the scaffold in place, no run removes a
\* path, and a run whose <output>/<name> exists already exits with a
\* non-zero code and leaves the file system exactly as it was; so every run
\* after a successful one with the same name and output fails and changes
\* nothing
C8_Collision ==
    /\ [](gCalls > 0 /\ gExit = 0 => TreeComplete(gFs, gArgs))
    /\ [][/\ DOMAIN gFs \subseteq DOMAIN gFs'
          /\ (gCalls' # gCalls /\ SkillDir(gArgs') \in DOMAIN gFs) =>
                 (gExit' # 0 /\ gFs' = gFs)]_vars

\* the second run, with the name and output of a first run that succeeded and
\* another description, has failed and the SKILL.md of the first run is intact
C8_Witness ==
    /\ gCalls = 2
    /\ gExit = 1
    /\ gArgs.name = Text(0, <<"a">>) /\ gArgs.description = Text(0, <<"x">>)
    /\ TreeComplete(gFs, gArgs)
    /\ gFs[SkillDir(gArgs) \o <<"SKILL.md">>].content
          = generate_skill_md(Text(0, <<"a">>), Text(0, <<"<">>))
====
